---- MODULE Spec2Model ----
(***************************************************************************)
(* Bounded-concurrency mapper of the repository: mapWithLimit              *)
(* (src/asyncJavaScrpit.js:207-221) and its processBatchWithLimit copies   *)
(* (src/unnamed/part_001:204-220, src/unnamed/part_002:172-192).           *)
(*                                                                         *)
(* The model follows the ECMAScript job semantics the code runs on: a      *)
(* promise has a state, a value and a list of reactions in registration    *)
(* order; settling a promise appends one job per reaction to the FIFO      *)
(* microtask queue; synchronous code runs to completion inside one job.    *)
(* The operations the caller supplies (asyncMapper / processItem) are      *)
(* opaque: an asynchronous one settles at an arbitrary later moment.       *)
(***************************************************************************)
EXTENDS Integers, Sequences, FiniteSets, TLC

\* ---- bounds of the explored instances ----
MaxItems == 3
MaxLimit == 4
\* the longest input explored under fair scheduling
MaxFairItems == 2

\* ---- the caller's inputs ----
\* The demo's input array, const items = [1,2,3,4,5]; the explored inputs are
\* its prefixes.
items == <<1, 2, 3, 4, 5>>
\* What the supplied operation does for an item:
\*   "value"  returns a plain value synchronously
\*   "throw"  throws synchronously
\*   "ok"     returns a promise that fulfils later
\*   "fail"   returns a promise that rejects later
Kinds == {"value", "throw", "ok", "fail"}
FailKinds == {"throw", "fail"}

\* The copies of the mapper: mapWithLimit registers the removal with
\* p.then(cleanup, cleanup), processBatchWithLimit with promise.finally(...).
Copies == {"mapWithLimit", "processBatchWithLimit"}

\* The limit arguments explored; the code accepts any number, also one below 1.
Limits == {-1} \cup (0..MaxLimit)

VARIABLES
    copy,        \* which copy of the mapper is called
    inputs,      \* the input array (items)
    limit,       \* the limit argument
    kind,        \* per index: behaviour of the supplied operation
    callState,   \* the call's promise: notcalled/pending/fulfilled/rejected
    callResult,  \* its fulfilment value (array of results)
    callError,   \* its rejection reason (0: none)
    results,     \* const results = []  (promises are named by item index)
    executing,   \* const executing = new Set()
    pState,      \* state of p for each index: none/pending/fulfilled/rejected
    pValue,      \* value or reason of p
    pReact,      \* reactions registered on p, in registration order
    dState,      \* promise derived by p.then(cleanup, cleanup) / .finally(...)
    tState,      \* finally only: promise of the value thunk / thrower
    opState,     \* the operation's promise: none/pending/fulfilled/rejected
    opReg,       \* p is subscribed to the operation's promise
    races,       \* the Promise.race(executing) promises created so far
    allState,    \* Promise.all(results): none/pending/fulfilled/rejected
    allValues,   \* its values list
    allRemaining,\* its remainingElementsCount
    allError,    \* its rejection reason
    allReg,      \* the call's promise is subscribed to it
    queue,       \* the microtask (job) queue
    invoked,     \* per index: how many times the operation was invoked
    settleOrder, \* the indices in the order in which their p settled
    hist,        \* observations of the run so far (see NotePeak, NoteFailure)
    pc,          \* position of the body: start/race/returned/thrown
    active,      \* the call (1 or 2) whose locals the variables above hold
    other,       \* the locals and promises of the other call, as a record
    \* the event loop demos
    evScript,    \* which script runs
    evNode,      \* the host is Node (process.nextTick exists)
    evPc,        \* the next statement of the script (past the end: script done)
    evTicks,     \* the process.nextTick queue
    evMicro,     \* the microtask queue
    evTimers,    \* the 0 ms timers in the order they were set
    evLog,       \* the lines logged so far
    \* createBankAccount
    balance,     \* let balance = initialBalance (the closure's private variable)
    bkInitial,   \* the initialBalance argument
    bkDeposited, \* sum of the amounts of the deposits that reported success
    bkWithdrawn, \* sum of the amounts of the withdrawals that reported success
    bkLast,      \* the last call: method, amount, balance before, return value
    bkCalls,     \* number of calls made on the account
    \* fetchWithTimeout
    fwTimeout,   \* the timeoutMs argument, in clock ticks
    fwNow,       \* clock ticks since the call
    fwTimer,     \* the timer id: none/armed/cleared/fired
    fwAborted,   \* controller.signal.aborted
    fwNet,       \* the request: none/inflight/headers/done/failed/aborted
    fwOk,        \* resp.ok of the response received
    fwP,         \* the promises: fetch(...), .then(...), resp.json(), .catch(...)
    fwJReg,      \* the then-promise is subscribed to the json promise
    fwMicro,     \* the microtask queue
    fwHist       \* observations (see FwNoHistory)

vars == <<copy, dState, tState, inputs, limit, kind, callState, callResult,
          callError, results,
          executing, pState, pValue, pReact, opState, opReg, races, allState,
          allValues, allRemaining, allError, allReg, queue, invoked,
          settleOrder, hist, pc, active, other,
          evScript, evNode, evPc, evTicks, evMicro, evTimers, evLog,
          balance, bkInitial, bkDeposited, bkWithdrawn, bkLast, bkCalls,
          fwTimeout, fwNow, fwTimer, fwAborted, fwNet, fwOk, fwP, fwJReg,
          fwMicro, fwHist>>

\* The variables of the mapper and those of the other programs.
mapperVars == <<copy, dState, tState, inputs, limit, kind, callState,
                callResult, callError, results, executing, pState, pValue,
                pReact, opState, opReg, races, allState, allValues,
                allRemaining, allError, allReg, queue, invoked, settleOrder,
                hist, pc, active, other>>
evVars == <<evScript, evNode, evPc, evTicks, evMicro, evTimers, evLog>>
bankVars == <<balance, bkInitial, bkDeposited, bkWithdrawn, bkLast, bkCalls>>
fwVars == <<fwTimeout, fwNow, fwTimer, fwAborted, fwNet, fwOk, fwP, fwJReg,
           fwMicro, fwHist>>
sideVars == <<evVars, bankVars, fwVars>>

N == Len(inputs)
Idx == 1..N

\* The demo's operation: n -> n * 2.
asyncMapper(n) == n * 2
\* The reason an operation fails with identifies the item's position.
ErrorOf(i) == i

\* A job belongs to the call that created it.
Job(t, i, r) == [t |-> t, i |-> i, r |-> r, c |-> active]

Settled(s) == s \in {"fulfilled", "rejected"}

\* Ascending enumeration of a set of indices (a Set iterates in insertion
\* order, and indices are inserted in increasing order).
RECURSIVE SetToSeq(_)
SetToSeq(S) ==
    IF S = {} THEN <<>>
    ELSE LET m == CHOOSE x \in S : \A y \in S : x <= y
         IN <<m>> \o SetToSeq(S \ {m})

\* ---- promise primitives ----

\* promise.then(reaction) on p[j]: a pending promise records the reaction, a
\* settled one queues its job at once.
Then(s, j, reaction) ==
    IF s.pState[j] = "pending"
    THEN [s EXCEPT !.pReact[j] = Append(@, reaction)]
    ELSE [s EXCEPT !.queue = Append(@, reaction)]

RECURSIVE ThenEach(_, _, _)
\* Registers the reaction proto on every promise of js, in order.
ThenEach(s, js, proto) ==
    IF js = <<>> THEN s
    ELSE ThenEach(Then(s, Head(js), Job(proto.t, Head(js), proto.r)),
                  Tail(js), proto)

\* ---- the body of mapWithLimit ----

\* if (executing.size >= limit)
AtLimitOffByOne(size, lim) == size + 1 >= lim
AtLimitStrict(size, lim) == size > lim
AtLimit(size, lim) == size >= lim

\* const p = Promise.resolve().then(() => asyncMapper(item));
\* results.push(p); executing.add(p);
\* const cleanup = () => executing.delete(p); p.then(cleanup, cleanup);
\* A launch that leaves p out of the in-flight set.
LaunchUnregistered(s, k) ==
    LET s1 == [s EXCEPT !.pState[k] = "pending",
                        !.dState[k] = "pending",
                        !.queue = Append(@, Job("invoke", k, 0)),
                        !.results = Append(@, k)]
    IN Then(s1, k, Job("cleanup", k, 0))
Launch(s, k) ==
    LET s1 == [s EXCEPT !.pState[k] = "pending",
                        !.dState[k] = "pending",
                        !.queue = Append(@, Job("invoke", k, 0)),
                        !.results = Append(@, k),
                        !.executing = @ \cup {k}]
    IN Then(s1, k, Job("cleanup", k, 0))

\* await Promise.race(executing): the race promise subscribes to every member
\* of the set, and the function body is suspended on the race promise.
AwaitRace(s) ==
    LET r  == Len(s.races) + 1
        s1 == [s EXCEPT !.races = Append(@, [state |-> "pending", value |-> 0])]
        s2 == ThenEach(s1, SetToSeq(s1.executing), Job("raceReact", 0, r))
    IN [s2 EXCEPT !.pc = "race"]

\* Promise.all(results) with an empty iterable resolves at once.
AllOfNothingStaysPending(n) == "pending"
AllInitialState(n) == IF n = 0 THEN "fulfilled" ELSE "pending"

\* return Promise.all(results);
\* The all-promise subscribes to every result promise; returning it from the
\* async function queues the job that chains the call's promise to it.
ReturnAll(s) ==
    LET n  == Len(s.results)
        s1 == [s EXCEPT !.allState = AllInitialState(n),
                        !.allValues = [j \in 1..n |-> 0],
                        !.allRemaining = n]
        s2 == ThenEach(s1, s1.results, Job("allReact", 0, 0))
    IN [s2 EXCEPT !.queue = Append(@, Job("callThenable", 0, 0)),
                  !.pc = "returned"]

\* for (const item of inputs): the last index the loop visits
LoopEndSkipsLast(n) == n - 1
LoopEnd(n) == n

\* for (const item of inputs): the index of the k-th item the iterator yields
ItemAtReversed(k) == N + 1 - k
ItemAt(k) == k

RECURSIVE RunLoopAt(_, _, _)
\* The synchronous run of the loop, under limit lim, from the k-th item up to
\* the next await or return.
RunLoopAt(s, k, lim) ==
    IF k > LoopEnd(N) THEN ReturnAll(s)
    ELSE LET s1 == Launch(s, ItemAt(k))
         IN IF AtLimit(Cardinality(s1.executing), lim)
            THEN AwaitRace(s1)
            ELSE RunLoopAt(s1, k + 1, lim)

\* The run of the loop under the call's limit argument.
RunLoop(s, k) == RunLoopAt(s, k, limit)

\* ---- observations recorded for the properties ----

\* peak: the largest size the in-flight set has had.
NotePeak(h, size) == [h EXCEPT !.peak = IF size > @ THEN size ELSE @]

\* The run is one of a pair of runs compared step by step (see PairSpec).
Paired == DOMAIN other = {"f", "q"}
\* A step of the body or a job of the call has run and left S in flight.  In a
\* paired run, jobs counts these steps and sets lists the in-flight sets the
\* call has passed through.
NoteStep(h, S) ==
    IF Paired
    THEN [h EXCEPT !.jobs = @ + 1,
                   !.sets = IF @ # <<>> /\ @[Len(@)] = S THEN @ ELSE Append(@, S)]
    ELSE h
\* Nothing observed yet.
NoHistory ==
    [peak |-> 0, failedAt |-> 0, firstFailedAt |-> 0, jobs |-> 0, sets |-> <<>>]

\* No member of the race the body is suspended on has settled yet.
RaceUndecided ==
    /\ races # <<>>
    /\ races[Len(races)].state = "pending"
    /\ \A k \in 1..Len(queue) :
          ~(queue[k].t = "raceReact" /\ queue[k].r = Len(races)
                                      /\ queue[k].c = active)

\* A promise p is rejected.  failedAt: how many items had been launched when
\* an operation first failed while the body was suspended on a wait-for-any;
\* firstFailedAt: the same, when that failure was the first member of the
\* race to settle.  0: no such failure so far.
NoteFailure(h) ==
    IF pc # "race" THEN h
    ELSE [h EXCEPT !.failedAt = IF @ = 0 THEN Len(results) ELSE @,
                   !.firstFailedAt = IF @ = 0 /\ RaceUndecided
                                     THEN Len(results) ELSE @]

\* The variables the function body writes, as one record.
Body ==
    [results |-> results, executing |-> executing, pState |-> pState,
     pReact |-> pReact, dState |-> dState, queue |-> queue, races |-> races,
     allState |-> allState, allValues |-> allValues,
     allRemaining |-> allRemaining, pc |-> pc]

SetBody(s) ==
    /\ results' = s.results
    /\ executing' = s.executing
    /\ pState' = s.pState
    /\ pReact' = s.pReact
    /\ dState' = s.dState
    /\ queue' = s.queue
    /\ races' = s.races
    /\ allState' = s.allState
    /\ allValues' = s.allValues
    /\ allRemaining' = s.allRemaining
    /\ pc' = s.pc
    /\ hist' = NoteStep(NotePeak(hist, Cardinality(s.executing)), s.executing)

\* ---- Promise.all's per-element resolve / reject functions ----

\* values[index] = x: the slot an element's value is stored in
AllSlotByCompletion(i, remaining, n) == n - remaining + 1
AllSlot(i, remaining, n) == i

\* Promise.allSettled-like variant: a rejected element is stored like a value.
AllSettledElementStep(a, i, st, v) ==
    LET rem == a.remaining - 1
    IN [a EXCEPT !.values[AllSlot(i, a.remaining, Len(a.values))] = v,
                 !.remaining = rem,
                 !.state = IF rem = 0 /\ a.state = "pending"
                           THEN "fulfilled" ELSE a.state]
\* Variant that fulfils when one element is still outstanding.
AllElementStepResolvesEarly(a, i, st, v) ==
    IF st = "fulfilled"
    THEN LET rem == a.remaining - 1
         IN [a EXCEPT !.values[AllSlot(i, a.remaining, Len(a.values))] = v,
                      !.remaining = rem,
                      !.state = IF rem <= 1 /\ a.state = "pending"
                                THEN "fulfilled" ELSE a.state]
    ELSE IF a.state = "pending"
         THEN [a EXCEPT !.state = "rejected", !.error = v]
         ELSE a
\* Variant in which every rejected element overwrites the reason.
AllElementStepLastReasonWins(a, i, st, v) ==
    IF st = "fulfilled"
    THEN LET rem == a.remaining - 1
         IN [a EXCEPT !.values[AllSlot(i, a.remaining, Len(a.values))] = v,
                      !.remaining = rem,
                      !.state = IF rem = 0 /\ a.state = "pending"
                                THEN "fulfilled" ELSE a.state]
    ELSE [a EXCEPT !.state = IF @ = "pending" THEN "rejected" ELSE @,
                   !.error = v]
\* Variant that rejects without passing the element's reason on.
AllElementStepDropsReason(a, i, st, v) ==
    IF st = "fulfilled"
    THEN LET rem == a.remaining - 1
         IN [a EXCEPT !.values[AllSlot(i, a.remaining, Len(a.values))] = v,
                      !.remaining = rem,
                      !.state = IF rem = 0 /\ a.state = "pending"
                                THEN "fulfilled" ELSE a.state]
    ELSE IF a.state = "pending"
         THEN [a EXCEPT !.state = "rejected"]
         ELSE a
\* a: the all-promise; element i has settled in state st with value/reason v.
AllElementStep(a, i, st, v) ==
    IF st = "fulfilled"
    THEN LET rem == a.remaining - 1
         IN [a EXCEPT !.values[AllSlot(i, a.remaining, Len(a.values))] = v,
                      !.remaining = rem,
                      !.state = IF rem = 0 /\ a.state = "pending"
                                THEN "fulfilled" ELSE a.state]
    ELSE IF a.state = "pending"
         THEN [a EXCEPT !.state = "rejected", !.error = v]
         ELSE a

\* const cleanup = () => executing.delete(p);
CleanupKeeps(S, i) == S
CleanupClearsOnReject(S, i) == IF pState[i] = "rejected" THEN {} ELSE S \ {i}
CleanupOnlyOnReject(S, i) == IF pState[i] = "rejected" THEN S \ {i} ELSE S
CleanupSet(S, i) == S \ {i}
\* A finally callback that is not run when the promise is rejected.
OnFinallySkipsRejected(S, i) == IF pState[i] = "rejected" THEN S ELSE S \ {i}
\* promise.finally(() => inProgress.delete(promise)): the callback runs when
\* the promise settles, fulfilled or rejected.
OnFinally(S, i) == S \ {i}

\* ---- initial states ----

\* The state before the call: nothing exists yet.
\* The locals of a call and the promises it created, as one record.
Frame ==
    [copy |-> copy, inputs |-> inputs, limit |-> limit, kind |-> kind,
     callState |-> callState, callResult |-> callResult,
     callError |-> callError, results |-> results, executing |-> executing,
     pState |-> pState, pValue |-> pValue, pReact |-> pReact,
     dState |-> dState, tState |-> tState, opState |-> opState,
     opReg |-> opReg, races |-> races, allState |-> allState,
     allValues |-> allValues, allRemaining |-> allRemaining,
     allError |-> allError, allReg |-> allReg, invoked |-> invoked,
     settleOrder |-> settleOrder, hist |-> hist, pc |-> pc]
\* The record of a call that has not been made yet.
IdleFrame(cp, inp, lim, kd) ==
    [copy |-> cp, inputs |-> inp, limit |-> lim, kind |-> kd,
     callState |-> "notcalled", callResult |-> <<>>, callError |-> 0,
     results |-> <<>>, executing |-> {},
     pState |-> [i \in 1..Len(inp) |-> "none"],
     pValue |-> [i \in 1..Len(inp) |-> 0],
     pReact |-> [i \in 1..Len(inp) |-> <<>>],
     dState |-> [i \in 1..Len(inp) |-> "none"],
     tState |-> [i \in 1..Len(inp) |-> "none"],
     opState |-> [i \in 1..Len(inp) |-> "none"],
     opReg |-> [i \in 1..Len(inp) |-> FALSE],
     races |-> <<>>, allState |-> "none", allValues |-> <<>>,
     allRemaining |-> 0, allError |-> 0, allReg |-> FALSE,
     invoked |-> [i \in 1..Len(inp) |-> 0],
     settleOrder |-> <<>>,
     hist |-> NoHistory,
     pc |-> "start"]
\* Only one call is ever made.
SingleCall ==
    /\ active = 1
    /\ other = IdleFrame("mapWithLimit", <<>>, 1, <<>>)

\* No event loop demo runs.
EvIdle ==
    /\ evScript = "none"
    /\ evNode = FALSE
    /\ evPc = 1
    /\ evTicks = <<>>
    /\ evMicro = <<>>
    /\ evTimers = <<>>
    /\ evLog = <<>>
\* No account has been created.
NoCall ==
    [method |-> "none", amount |-> [nan |-> FALSE, v |-> 0], before |-> 0,
     ret |-> [text |-> "", amount |-> [nan |-> FALSE, v |-> 0], balance |-> 0]]
BankIdle ==
    /\ balance = 0
    /\ bkInitial = 0
    /\ bkDeposited = 0
    /\ bkWithdrawn = 0
    /\ bkLast = NoCall
    /\ bkCalls = 0
\* A promise: state and value or reason.
Promise(st, v) == [state |-> st, value |-> v]
FwPromises == {"fetch", "then", "json", "ret"}
\* settles: how often the returned promise has been settled; timedOut: the
\* timer fired with no response received; early: the request finished (a
\* response or a network error) with the timer still armed; lateAbort:
\* controller.abort() was called with the returned promise settled.
FwNoHistory == [settles |-> 0, timedOut |-> FALSE, early |-> FALSE, lateAbort |-> FALSE]
\* fetchWithTimeout has not been called.
FwNotCalled ==
    /\ fwNow = 0
    /\ fwTimer = "none"
    /\ fwAborted = FALSE
    /\ fwNet = "none"
    /\ fwOk = FALSE
    /\ fwP = [q \in FwPromises |-> Promise("none", "")]
    /\ fwJReg = FALSE
    /\ fwMicro = <<>>
    /\ fwHist = FwNoHistory
FwIdle == fwTimeout = 0 /\ FwNotCalled
\* Only the mapper runs.
SideIdle == EvIdle /\ BankIdle /\ FwIdle

NotCalled ==
    /\ callState = "notcalled"
    /\ callResult = <<>>
    /\ callError = 0
    /\ results = <<>>
    /\ executing = {}
    /\ pState = [i \in Idx |-> "none"]
    /\ pValue = [i \in Idx |-> 0]
    /\ pReact = [i \in Idx |-> <<>>]
    /\ dState = [i \in Idx |-> "none"]
    /\ tState = [i \in Idx |-> "none"]
    /\ opState = [i \in Idx |-> "none"]
    /\ opReg = [i \in Idx |-> FALSE]
    /\ races = <<>>
    /\ allState = "none"
    /\ allValues = <<>>
    /\ allRemaining = 0
    /\ allError = 0
    /\ allReg = FALSE
    /\ queue = <<>>
    /\ invoked = [i \in Idx |-> 0]
    /\ settleOrder = <<>>
    /\ hist = NoHistory
    /\ pc = "start"

Init ==
    /\ \E n \in 0..MaxItems :
         /\ inputs = SubSeq(items, 1, n)
         /\ kind \in [1..n -> Kinds]
    /\ copy \in Copies
    /\ limit \in Limits
    /\ NotCalled
    /\ SideIdle
    /\ SingleCall

\* The demo call: mapWithLimit(items, 2, async (n) => { await <100 ms timer>;
\* return n * 2; }) and the same call of processBatchWithLimit.
DemoLimit == 2
DemoInit ==
    /\ inputs = items
    /\ kind = [i \in 1..Len(items) |-> "ok"]
    /\ copy \in Copies
    /\ limit = DemoLimit
    /\ NotCalled
    /\ SideIdle
    /\ SingleCall

\* ---- actions ----

\* mapWithLimit(inputs, limit, asyncMapper): the body runs synchronously up to
\* its first await or its return.
Call ==
    /\ callState = "notcalled"
    /\ callState' = "pending"
    /\ SetBody(RunLoop(Body, 1))
    /\ UNCHANGED <<sideVars, active, other, copy, tState, settleOrder, inputs, limit, kind, callResult,
                   callError, pValue, opState, opReg, allError, allReg,
                   invoked>>

\* The job at the head of the queue is a job t of the call in view.
HeadIs(t) == queue # <<>> /\ Head(queue).t = t /\ Head(queue).c = active

\* Job of Promise.resolve().then(() => asyncMapper(item)): the operation is
\* invoked; a plain return value or a throw settles p in this job, a returned
\* promise makes p follow it through a further job.
Invoke ==
    /\ HeadIs("invoke")
    /\ LET i == Head(queue).i IN
         /\ invoked' = [invoked EXCEPT ![i] = @ + 1]
         /\ IF kind[i] \in {"value", "throw"}
            THEN /\ pState' = [pState EXCEPT ![i] =
                        IF kind[i] = "value" THEN "fulfilled" ELSE "rejected"]
                 /\ pValue' = [pValue EXCEPT ![i] =
                        IF kind[i] = "value" THEN asyncMapper(inputs[i]) ELSE ErrorOf(i)]
                 /\ queue' = Tail(queue) \o pReact[i]
                 /\ pReact' = [pReact EXCEPT ![i] = <<>>]
                 /\ settleOrder' = Append(settleOrder, i)
                 /\ hist' = NoteStep(IF kind[i] = "throw" THEN NoteFailure(hist)
                                      ELSE hist, executing)
                 /\ UNCHANGED opState
            ELSE /\ opState' = [opState EXCEPT ![i] = "pending"]
                 /\ queue' = Append(Tail(queue), Job("thenable", i, 0))
                 /\ hist' = NoteStep(hist, executing)
                 /\ UNCHANGED <<pState, pValue, pReact, settleOrder>>
    /\ UNCHANGED <<sideVars, active, other, copy, dState, tState, inputs, limit, kind, callState,
                   callResult, callError, results, executing, opReg, races,
                   allState, allValues, allRemaining, allError, allReg, pc>>

\* Job that subscribes p to the promise the operation returned.
Thenable ==
    /\ HeadIs("thenable")
    /\ LET i == Head(queue).i IN
         IF Settled(opState[i])
         THEN /\ queue' = Append(Tail(queue), Job("settleP", i, 0))
              /\ UNCHANGED opReg
         ELSE /\ opReg' = [opReg EXCEPT ![i] = TRUE]
              /\ queue' = Tail(queue)
    /\ hist' = NoteStep(hist, executing)
    /\ UNCHANGED <<sideVars, active, other, copy, dState, tState, settleOrder, inputs, limit, kind,
                   callState, callResult, callError, results, executing, pState,
                   pValue, pReact, opState, races, allState, allValues,
                   allRemaining, allError, allReg, invoked, pc>>

\* The environment: the promise of a running operation settles (a timer
\* fires, I/O completes), at any moment and in any order.
OpSettles(i) ==
    /\ opState[i] = "pending"
    /\ opState' = [opState EXCEPT ![i] =
                      IF kind[i] = "ok" THEN "fulfilled" ELSE "rejected"]
    /\ queue' = IF opReg[i] THEN Append(queue, Job("settleP", i, 0)) ELSE queue
    /\ UNCHANGED <<sideVars, active, other, hist, copy, dState, tState, settleOrder, inputs, limit, kind,
                   callState, callResult, callError, results, executing, pState,
                   pValue, pReact, opReg, races, allState, allValues,
                   allRemaining, allError, allReg, invoked, pc>>

\* Job that settles p with the outcome of the operation's promise and queues
\* p's reactions in registration order.
SettleP ==
    /\ HeadIs("settleP")
    /\ LET i == Head(queue).i IN
         /\ pState' = [pState EXCEPT ![i] = opState[i]]
         /\ pValue' = [pValue EXCEPT ![i] =
                IF opState[i] = "fulfilled" THEN asyncMapper(inputs[i]) ELSE ErrorOf(i)]
         /\ queue' = Tail(queue) \o pReact[i]
         /\ pReact' = [pReact EXCEPT ![i] = <<>>]
         /\ settleOrder' = Append(settleOrder, i)
         /\ hist' = NoteStep(IF opState[i] = "rejected" THEN NoteFailure(hist)
                              ELSE hist, executing)
    /\ UNCHANGED <<sideVars, active, other, copy, dState, tState, inputs, limit, kind, callState,
                   callResult, callError, results, executing, opState, opReg,
                   races, allState, allValues, allRemaining, allError, allReg,
                   invoked, pc>>

\* Job of p.then(cleanup, cleanup) / promise.finally(...): the member is
\* removed.  With then, the derived promise is fulfilled with the callback's
\* return value.  With finally, the callback's result is passed through
\* Promise.resolve(result).then(valueThunk or thrower), whose job is queued,
\* and the derived promise follows that promise through a further job.
Cleanup ==
    /\ HeadIs("cleanup")
    /\ LET i == Head(queue).i IN
         /\ executing' = IF copy = "mapWithLimit" THEN CleanupSet(executing, i)
                         ELSE OnFinally(executing, i)
         /\ IF copy = "mapWithLimit"
            THEN /\ dState' = [dState EXCEPT ![i] = "fulfilled"]
                 /\ queue' = Tail(queue)
                 /\ UNCHANGED tState
            ELSE /\ tState' = [tState EXCEPT ![i] = "pending"]
                 /\ queue' = Tail(queue) \o <<Job("finThunk", i, 0), Job("finThenable", i, 0)>>
                 /\ UNCHANGED dState
    /\ hist' = NoteStep(hist, executing')
    /\ UNCHANGED <<sideVars, active, other, copy, settleOrder, inputs, limit, kind, callState,
                   callResult, callError, results, pState, pValue, pReact,
                   opState, opReg, races, allState, allValues, allRemaining,
                   allError, allReg, invoked, pc>>

\* finally: the value thunk returns p's value, the thrower rethrows p's reason.
FinThunk ==
    /\ HeadIs("finThunk")
    /\ tState' = [tState EXCEPT ![Head(queue).i] = pState[Head(queue).i]]
    /\ queue' = Tail(queue)
    /\ UNCHANGED <<sideVars, active, other, hist, copy, dState, settleOrder, inputs, limit, kind, callState,
                   callResult, callError, results, executing, pState, pValue,
                   pReact, opState, opReg, races, allState, allValues,
                   allRemaining, allError, allReg, invoked, pc>>

\* finally: the derived promise subscribes to the thunk's promise, which has
\* settled in the job before this one.
FinThenable ==
    /\ HeadIs("finThenable")
    /\ Settled(tState[Head(queue).i])
    /\ queue' = Append(Tail(queue), Job("finSettle", Head(queue).i, 0))
    /\ UNCHANGED <<sideVars, active, other, hist, copy, dState, tState, settleOrder, inputs, limit, kind,
                   callState, callResult, callError, results, executing, pState,
                   pValue, pReact, opState, opReg, races, allState, allValues,
                   allRemaining, allError, allReg, invoked, pc>>

\* finally: the derived promise settles like p (no handler is attached to it).
FinSettle ==
    /\ HeadIs("finSettle")
    /\ dState' = [dState EXCEPT ![Head(queue).i] = tState[Head(queue).i]]
    /\ queue' = Tail(queue)
    /\ UNCHANGED <<sideVars, active, other, hist, copy, tState, settleOrder, inputs, limit, kind, callState,
                   callResult, callError, results, executing, pState, pValue,
                   pReact, opState, opReg, races, allState, allValues,
                   allRemaining, allError, allReg, invoked, pc>>

\* A race that only a fulfilled member could settle (Promise.any).
RaceStepIgnoresRejection(race, st, v) ==
    IF race.state = "pending" /\ st = "fulfilled"
    THEN [state |-> st, value |-> v] ELSE race
\* Promise.race: the first member whose reaction runs settles the race with
\* its own outcome, fulfilled or rejected; later members change nothing.
RaceStep(race, st, v) ==
    IF race.state = "pending" THEN [state |-> st, value |-> v] ELSE race

\* Job of the race promise's subscription to p: the first member to settle
\* settles the race, which queues the resumption of the awaiting body.
RaceReact ==
    /\ HeadIs("raceReact")
    /\ LET i == Head(queue).i
           r == Head(queue).r
           settled == RaceStep(races[r], pState[i], pValue[i])
       IN /\ races' = [races EXCEPT ![r] = settled]
          /\ queue' = IF races[r].state = "pending" /\ settled.state # "pending"
                       THEN Append(Tail(queue), Job("resume", 0, r))
                       ELSE Tail(queue)
    /\ hist' = NoteStep(hist, executing)
    /\ UNCHANGED <<sideVars, active, other, copy, dState, tState, settleOrder, inputs, limit, kind,
                   callState, callResult, callError, results, executing, pState,
                   pValue, pReact, opState, opReg, allState, allValues,
                   allRemaining, allError, allReg, invoked, pc>>

\* The body resumes after await Promise.race(executing): a fulfilled race
\* continues the loop with the next item, a rejected one throws out of the
\* async function, which rejects the call's promise.
Resume ==
    /\ HeadIs("resume")
    /\ LET r == Head(queue).r IN
         IF races[r].state = "fulfilled"
         THEN /\ SetBody(RunLoop([Body EXCEPT !.queue = Tail(queue)], Len(results) + 1))
              /\ UNCHANGED <<callState, callError>>
         ELSE /\ callState' = "rejected"
              /\ callError' = races[r].value
              /\ pc' = "thrown"
              /\ queue' = Tail(queue)
              /\ UNCHANGED <<results, executing, pState, pReact, dState, races,
                             allState, allValues, allRemaining>>
              /\ hist' = NoteStep(hist, executing)
    /\ UNCHANGED <<sideVars, active, other, copy, tState, settleOrder, inputs, limit, kind, callResult,
                   pValue, opState, opReg, allError, allReg, invoked>>

AllRec ==
    [state |-> allState, values |-> allValues, remaining |-> allRemaining,
     error |-> allError]

\* Job of Promise.all's subscription to p.
AllReact ==
    /\ HeadIs("allReact")
    /\ LET i == Head(queue).i
           a == AllElementStep(AllRec, i, pState[i], pValue[i])
       IN /\ allState' = a.state
          /\ allValues' = a.values
          /\ allRemaining' = a.remaining
          /\ allError' = a.error
          /\ queue' = IF allState = "pending" /\ a.state # "pending" /\ allReg
                      THEN Append(Tail(queue), Job("callReact", 0, 0))
                      ELSE Tail(queue)
    /\ hist' = NoteStep(hist, executing)
    /\ UNCHANGED <<sideVars, active, other, copy, dState, tState, settleOrder, inputs, limit, kind,
                   callState, callResult, callError, results, executing, pState,
                   pValue, pReact, opState, opReg, races, allReg, invoked, pc>>

\* Job that subscribes the call's promise to the returned all-promise.
CallThenable ==
    /\ HeadIs("callThenable")
    /\ IF Settled(allState)
       THEN /\ queue' = Append(Tail(queue), Job("callReact", 0, 0))
            /\ UNCHANGED allReg
       ELSE /\ allReg' = TRUE
            /\ queue' = Tail(queue)
    /\ hist' = NoteStep(hist, executing)
    /\ UNCHANGED <<sideVars, active, other, copy, dState, tState, settleOrder, inputs, limit, kind,
                   callState, callResult, callError, results, executing, pState,
                   pValue, pReact, opState, opReg, races, allState, allValues,
                   allRemaining, allError, invoked, pc>>

\* Job that settles the call's promise with the all-promise's outcome.
CallReact ==
    /\ HeadIs("callReact")
    /\ callState' = allState
    /\ callResult' = IF allState = "fulfilled" THEN allValues ELSE callResult
    /\ callError' = IF allState = "rejected" THEN allError ELSE callError
    /\ queue' = Tail(queue)
    /\ hist' = NoteStep(hist, executing)
    /\ UNCHANGED <<sideVars, active, other, copy, dState, tState, settleOrder, inputs, limit, kind,
                   results, executing, pState, pValue, pReact, opState, opReg,
                   races, allState, allValues, allRemaining, allError, allReg,
                   invoked, pc>>

Next ==
    \/ Call
    \/ Invoke
    \/ Thenable
    \/ \E i \in Idx : OpSettles(i)
    \/ SettleP
    \/ Cleanup
    \/ FinThunk
    \/ FinThenable
    \/ FinSettle
    \/ RaceReact
    \/ Resume
    \/ AllReact
    \/ CallThenable
    \/ CallReact

Spec == Init /\ [][Next]_vars

\* ---- mapWithLimit under fair scheduling ----

\* The calls of mapWithLimit explored under fairness.
FairInit ==
    /\ \E n \in 0..MaxFairItems :
         /\ inputs = SubSeq(items, 1, n)
         /\ kind \in [1..n -> Kinds]
    /\ copy = "mapWithLimit"
    /\ limit \in Limits
    /\ NotCalled
    /\ SideIdle
    /\ SingleCall

\* A queued job of mapWithLimit is run.
RunJob ==
    \/ Invoke
    \/ Thenable
    \/ SettleP
    \/ Cleanup
    \/ RaceReact
    \/ Resume
    \/ AllReact
    \/ CallThenable
    \/ CallReact

FairNext ==
    \/ Call
    \/ RunJob
    \/ \E i \in Idx : OpSettles(i)

\* The call is made, the event loop runs every queued job, and every running
\* operation eventually settles.
FairSpec ==
    /\ FairInit
    /\ [][FairNext]_vars
    /\ WF_vars(Call)
    /\ WF_vars(RunJob)
    /\ WF_vars(\E i \in Idx : OpSettles(i))

\* The bounded instances together with the demo call.
SpecWithDemo == (Init \/ DemoInit) /\ [][Next]_vars

\* ---- two overlapping calls ----

\* The two calls explored together have at most MaxTwinItems items in all.
MaxTwinItems == 3
TwinLimits == {1, 2}
TwinKinds == {"ok", "throw"}

\* Call 1 gets a prefix of the demo array and call 2 a suffix of it.
TwinInit ==
    /\ \E n \in 1..(MaxTwinItems - 1) :
         /\ inputs = SubSeq(items, 1, n)
         /\ kind \in [1..n -> TwinKinds]
    /\ copy \in Copies
    /\ limit \in TwinLimits
    /\ NotCalled
    /\ SideIdle
    /\ active = 1
    /\ \E n \in 1..(MaxTwinItems - N), lim \in TwinLimits :
         \E kd \in [1..n -> TwinKinds] :
            other = IdleFrame(copy, SubSeq(items, Len(items) - n + 1, Len(items)),
                              lim, kd)

\* The other call has something to run: it is still to be made, one of its
\* operations is running, or the job at the head of the queue is its own.
OtherCanRun ==
    \/ other.callState = "notcalled"
    \/ \E i \in 1..Len(other.inputs) : other.opState[i] = "pending"
    \/ queue # <<>> /\ Head(queue).c # active

\* A switch between calls whose in-flight set is one set for both.
SwitchSharesExecuting ==
    /\ OtherCanRun
    /\ active' = 3 - active
    /\ other' = Frame
    /\ copy' = other.copy
    /\ inputs' = other.inputs
    /\ limit' = other.limit
    /\ kind' = other.kind
    /\ callState' = other.callState
    /\ callResult' = other.callResult
    /\ callError' = other.callError
    /\ results' = other.results
    /\ pState' = other.pState
    /\ pValue' = other.pValue
    /\ pReact' = other.pReact
    /\ dState' = other.dState
    /\ tState' = other.tState
    /\ opState' = other.opState
    /\ opReg' = other.opReg
    /\ races' = other.races
    /\ allState' = other.allState
    /\ allValues' = other.allValues
    /\ allRemaining' = other.allRemaining
    /\ allError' = other.allError
    /\ allReg' = other.allReg
    /\ invoked' = other.invoked
    /\ settleOrder' = other.settleOrder
    /\ hist' = other.hist
    /\ pc' = other.pc
    /\ UNCHANGED <<queue, executing, sideVars>>
\* The engine turns to the other call: its record comes into view and the
\* record of the call in view is put aside.  The job queue is the one queue
\* of the engine.
Switch ==
    /\ OtherCanRun
    /\ active' = 3 - active
    /\ other' = Frame
    /\ copy' = other.copy
    /\ inputs' = other.inputs
    /\ limit' = other.limit
    /\ kind' = other.kind
    /\ callState' = other.callState
    /\ callResult' = other.callResult
    /\ callError' = other.callError
    /\ results' = other.results
    /\ executing' = other.executing
    /\ pState' = other.pState
    /\ pValue' = other.pValue
    /\ pReact' = other.pReact
    /\ dState' = other.dState
    /\ tState' = other.tState
    /\ opState' = other.opState
    /\ opReg' = other.opReg
    /\ races' = other.races
    /\ allState' = other.allState
    /\ allValues' = other.allValues
    /\ allRemaining' = other.allRemaining
    /\ allError' = other.allError
    /\ allReg' = other.allReg
    /\ invoked' = other.invoked
    /\ settleOrder' = other.settleOrder
    /\ hist' = other.hist
    /\ pc' = other.pc
    /\ UNCHANGED <<queue, sideVars>>

TwinNext ==
    \/ Switch
    \/ Call
    \/ Invoke
    \/ Thenable
    \/ \E i \in Idx : OpSettles(i)
    \/ SettleP
    \/ Cleanup
    \/ FinThunk
    \/ FinThenable
    \/ FinSettle
    \/ RaceReact
    \/ Resume
    \/ AllReact
    \/ CallThenable
    \/ CallReact

TwinSpec == TwinInit /\ [][TwinNext]_vars

\* ---- the copies of the mapper, run side by side ----

\* mapWithLimit and processBatchWithLimit are called with the same items,
\* limit and operation, each in an engine of its own (its own job queue).  The
\* two processBatchWithLimit copies have the same statements and are one copy
\* here.  The call in view is run by the actions above; the other call and its
\* queue are kept in other.f and other.q.
MaxPairItems == 2

PairInit ==
    /\ \E n \in 0..MaxPairItems :
         /\ inputs = SubSeq(items, 1, n)
         /\ kind \in [1..n -> Kinds]
    /\ copy = "mapWithLimit"
    /\ limit \in Limits
    /\ NotCalled
    /\ SideIdle
    /\ active = 1
    /\ other = [f |-> IdleFrame("processBatchWithLimit", inputs, limit, kind),
                q |-> <<>>]

\* The jobs only promise.finally creates.
FinJobs == {"finThunk", "finThenable", "finSettle"}
\* mapWithLimit is in view and processBatchWithLimit has taken as many steps:
\* mapWithLimit takes the next step, or the next operation settles.
Leads == active = 1 /\ hist.jobs = other.f.hist.jobs
\* processBatchWithLimit is in view and one step behind.
Follows == active = 2 /\ hist.jobs < other.f.hist.jobs
MayStep == Leads \/ Follows
\* The call in view has nothing to run before the other call moves.
TurnEnds ==
    \/ active = 1 /\ hist.jobs > other.f.hist.jobs
    \/ active = 2 /\ hist.jobs = other.f.hist.jobs

\* The other call and its queue come into view.
PairSwitch ==
    /\ TurnEnds
    /\ active' = 3 - active
    /\ other' = [f |-> Frame, q |-> queue]
    /\ copy' = other.f.copy
    /\ inputs' = other.f.inputs
    /\ limit' = other.f.limit
    /\ kind' = other.f.kind
    /\ callState' = other.f.callState
    /\ callResult' = other.f.callResult
    /\ callError' = other.f.callError
    /\ results' = other.f.results
    /\ executing' = other.f.executing
    /\ pState' = other.f.pState
    /\ pValue' = other.f.pValue
    /\ pReact' = other.f.pReact
    /\ dState' = other.f.dState
    /\ tState' = other.f.tState
    /\ opState' = other.f.opState
    /\ opReg' = other.f.opReg
    /\ races' = other.f.races
    /\ allState' = other.f.allState
    /\ allValues' = other.f.allValues
    /\ allRemaining' = other.f.allRemaining
    /\ allError' = other.f.allError
    /\ allReg' = other.f.allReg
    /\ invoked' = other.f.invoked
    /\ settleOrder' = other.f.settleOrder
    /\ hist' = other.f.hist
    /\ pc' = other.f.pc
    /\ queue' = other.q
    /\ UNCHANGED sideVars

\* The same settle of the operation of item i reaches both calls at the same
\* point of their runs.
PairSettle(i) ==
    /\ Leads
    /\ opState[i] = "pending"
    /\ other.f.opState[i] = "pending"
    /\ opState' = [opState EXCEPT ![i] =
                      IF kind[i] = "ok" THEN "fulfilled" ELSE "rejected"]
    /\ queue' = IF opReg[i] THEN Append(queue, Job("settleP", i, 0)) ELSE queue
    /\ other' = [other EXCEPT
                    !.f.opState[i] = IF kind[i] = "ok" THEN "fulfilled" ELSE "rejected",
                    !.q = IF other.f.opReg[i]
                          THEN Append(@, [Job("settleP", i, 0) EXCEPT !.c = 3 - active])
                          ELSE @]
    /\ UNCHANGED <<sideVars, active, hist, copy, dState, tState, settleOrder, inputs, limit,
                   kind, callState, callResult, callError, results, executing,
                   pState, pValue, pReact, opReg, races, allState, allValues,
                   allRemaining, allError, allReg, invoked, pc>>

PairNext ==
    \/ PairSwitch
    \/ \E i \in Idx : PairSettle(i)
    \/ MayStep /\ Call
    \/ MayStep /\ Invoke
    \/ MayStep /\ Thenable
    \/ MayStep /\ SettleP
    \/ MayStep /\ Cleanup
    \/ FinThunk
    \/ FinThenable
    \/ FinSettle
    \/ MayStep /\ RaceReact
    \/ MayStep /\ Resume
    \/ MayStep /\ AllReact
    \/ MayStep /\ CallThenable
    \/ MayStep /\ CallReact

PairSpec == PairInit /\ [][PairNext]_vars

\* ---- the event loop demos ----

\* No call of the mapper is made.
MapperIdle ==
    /\ inputs = <<>>
    /\ kind = <<>>
    /\ copy = "mapWithLimit"
    /\ limit = 1
    /\ NotCalled
    /\ SingleCall

\* Statements: console.log(a), setTimeout(a, 0), Promise.resolve().then(a),
\* process.nextTick(a), queueMicrotask(a); chain: the promise returned by
\* then is fulfilled when the callback returns, which queues the callback
\* chained on it.  A statement under `if (typeof process !== 'undefined' ...)`
\* is run in Node only.
Stmt(op, a) == [op |-> op, a |-> a, nodeOnly |-> FALSE]
NodeStmt(op, a) == [op |-> op, a |-> a, nodeOnly |-> TRUE]

EvScripts == {"asyncJavaScrpit", "explained", "guide"}
\* The top-level statements of each script, in source order.
Script(f) ==
    IF f = "asyncJavaScrpit"
    THEN << Stmt("log", "start"),
            Stmt("timeout", "T7"),
            Stmt("then", "M7"),
            Stmt("log", "end"),
            NodeStmt("tick", "N7"),
            NodeStmt("qmt", "Q7"),
            Stmt("timeout", "A"),
            Stmt("then", "B"),
            Stmt("log", "D: synchronous") >>
    ELSE IF f = "explained"
    THEN << Stmt("log", "1. Script Start"),
            Stmt("timeout", "T4"),
            Stmt("then", "P3"),
            Stmt("log", "2. Script End") >>
    ELSE IF f = "guide"
    THEN << Stmt("log", "1. Start"),
            Stmt("timeout", "G4"),
            Stmt("then", "G2"),
            Stmt("log", "3. End") >>
    ELSE <<>>
\* The body of each callback.
Callback(c) ==
    CASE c = "T7" -> << Stmt("log", "macrotask: setTimeout") >>
      [] c = "M7" -> << Stmt("log", "microtask: promise then") >>
      [] c = "N7" -> << Stmt("log", "process.nextTick") >>
      [] c = "Q7" -> << Stmt("log", "queueMicrotask") >>
      [] c = "A"  -> << Stmt("log", "A: setTimeout 1") >>
      [] c = "B"  -> << Stmt("log", "B: promise then 1"), Stmt("timeout", "C") >>
      [] c = "C"  -> << Stmt("log", "C: setTimeout 2 after promise") >>
      [] c = "T4" -> << Stmt("log", "4. Timer 1") >>
      [] c = "P3" -> << Stmt("log", "3. Promise 1"), Stmt("chain", "P5") >>
      [] c = "P5" -> << Stmt("log", "5. Promise 2") >>
      [] c = "G4" -> << Stmt("log", "4. Timeout done") >>
      [] c = "G2" -> << Stmt("log", "2. Promise done") >>

\* The queues and the log, as one record.
EvState ==
    [ticks |-> evTicks, micro |-> evMicro, timers |-> evTimers, log |-> evLog]
\* One statement is run.
Exec1(st, x) ==
    IF x.nodeOnly /\ ~evNode THEN st
    ELSE CASE x.op = "log" -> [st EXCEPT !.log = Append(@, x.a)]
           [] x.op = "timeout" ->
                 [st EXCEPT !.timers = Append(@, [cb |-> x.a, due |-> FALSE])]
           [] x.op \in {"then", "qmt", "chain"} ->
                 [st EXCEPT !.micro = Append(@, x.a)]
           [] x.op = "tick" -> [st EXCEPT !.ticks = Append(@, x.a)]
RECURSIVE Exec(_, _)
\* The statements xs are run to completion.
Exec(st, xs) == IF xs = <<>> THEN st ELSE Exec(Exec1(st, Head(xs)), Tail(xs))
SetEv(st) ==
    /\ evTicks' = st.ticks
    /\ evMicro' = st.micro
    /\ evTimers' = st.timers
    /\ evLog' = st.log

EvInit ==
    /\ evScript \in EvScripts
    /\ evNode \in BOOLEAN
    /\ evPc = 1
    /\ evTicks = <<>>
    /\ evMicro = <<>>
    /\ evTimers = <<>>
    /\ evLog = <<>>
    /\ MapperIdle
    /\ BankIdle
    /\ FwIdle

ScriptDone == evPc > Len(Script(evScript))
\* A timer callback is taken as soon as it is due, whatever is queued.
MacrotaskIgnoresMicrotasks(ticks, micro) == TRUE
\* The event loop takes the next macrotask when the stack is empty and the
\* nextTick and microtask queues have been drained.
MacrotaskMayRun(ticks, micro) == ticks = <<>> /\ micro = <<>>

\* The script runs its next top-level statement.
EvStep ==
    /\ ~ScriptDone
    /\ SetEv(Exec1(EvState, Script(evScript)[evPc]))
    /\ evPc' = evPc + 1
    /\ UNCHANGED <<evScript, evNode, mapperVars, bankVars, fwVars>>

\* The clock: the earliest timer not yet due becomes due (the timers have
\* the same delay, so they become due in the order they were set).
EvTimerDue ==
    /\ \E k \in 1..Len(evTimers) :
          /\ ~evTimers[k].due
          /\ \A j \in 1..(k - 1) : evTimers[j].due
          /\ evTimers' = [evTimers EXCEPT ![k].due = TRUE]
    /\ UNCHANGED <<evScript, evNode, evPc, evTicks, evMicro, evLog, mapperVars, bankVars, fwVars>>

\* Node runs the nextTick callbacks before the promise jobs.
EvRunTick ==
    /\ ScriptDone
    /\ evTicks # <<>>
    /\ SetEv(Exec([EvState EXCEPT !.ticks = Tail(@)], Callback(Head(evTicks))))
    /\ UNCHANGED <<evScript, evNode, evPc, mapperVars, bankVars, fwVars>>

\* A microtask (promise reaction, queueMicrotask callback) is run.
EvRunMicro ==
    /\ ScriptDone
    /\ evTicks = <<>>
    /\ evMicro # <<>>
    /\ SetEv(Exec([EvState EXCEPT !.micro = Tail(@)], Callback(Head(evMicro))))
    /\ UNCHANGED <<evScript, evNode, evPc, mapperVars, bankVars, fwVars>>

\* The callback of the earliest timer is run as a macrotask.
EvRunTimer ==
    /\ ScriptDone
    /\ MacrotaskMayRun(evTicks, evMicro)
    /\ evTimers # <<>>
    /\ Head(evTimers).due
    /\ SetEv(Exec([EvState EXCEPT !.timers = Tail(@)], Callback(Head(evTimers).cb)))
    /\ UNCHANGED <<evScript, evNode, evPc, mapperVars, bankVars, fwVars>>

EvNext ==
    \/ EvStep
    \/ EvTimerDue
    \/ EvRunTick
    \/ EvRunMicro
    \/ EvRunTimer

EvSpec == EvInit /\ [][EvNext]_vars

\* ---- createBankAccount ----

\* The amounts and initial balances explored, besides those of the usage
\* lines; NaN is a number that every comparison rejects.
MaxAmount == 2
MaxBalance == 2
MaxCalls == 3
\* A JavaScript number: an integer or NaN.
Num(v) == [nan |-> FALSE, v |-> v]
NaN == [nan |-> TRUE, v |-> 0]
DemoBalance == 100
DemoDeposit == 50
DemoWithdraw == 30
Amounts == {Num(v) : v \in (-1..MaxAmount) \cup {DemoDeposit, DemoWithdraw}} \cup {NaN}

\* a > b and a <= b of JavaScript numbers.
Gt(a, b) == ~a.nan /\ ~b.nan /\ a.v > b.v
Le(a, b) == ~a.nan /\ ~b.nan /\ a.v <= b.v

\* if (amount > 0)
DepositOkAllowsZero(amount) == ~amount.nan /\ amount.v >= 0
DepositOk(amount) == Gt(amount, Num(0))
\* if (amount > 0 && amount <= balance)
WithdrawOkUnchecked(amount, bal) == Gt(amount, Num(0))
WithdrawOk(amount, bal) == Gt(amount, Num(0)) /\ Le(amount, Num(bal))

\* `Deposited ${amount}. New balance: ${balance}` and the other return values.
Message(text, amount, bal) == [text |-> text, amount |-> amount, balance |-> bal]
InvalidDeposit == Message("Invalid deposit amount", Num(0), 0)
InvalidWithdrawal ==
    Message("Invalid withdrawal amount or insufficient funds", Num(0), 0)

\* const account = createBankAccount(initialBalance)
BankInit ==
    /\ bkInitial \in (0..MaxBalance) \cup {DemoBalance}
    /\ balance = bkInitial
    /\ bkDeposited = 0
    /\ bkWithdrawn = 0
    /\ bkLast = NoCall
    /\ bkCalls = 0
    /\ MapperIdle
    /\ EvIdle
    /\ FwIdle

\* account.deposit(amount)
Deposit(amount) ==
    /\ bkCalls < MaxCalls
    /\ bkCalls' = bkCalls + 1
    /\ IF DepositOk(amount)
       THEN /\ balance' = balance + amount.v
            /\ bkLast' = [method |-> "deposit", amount |-> amount, before |-> balance,
                          ret |-> Message("Deposited", amount, balance + amount.v)]
            /\ bkDeposited' = bkDeposited + amount.v
       ELSE /\ bkLast' = [method |-> "deposit", amount |-> amount, before |-> balance,
                          ret |-> InvalidDeposit]
            /\ UNCHANGED <<balance, bkDeposited>>
    /\ UNCHANGED <<bkInitial, bkWithdrawn, mapperVars, evVars, fwVars>>

\* account.withdraw(amount)
Withdraw(amount) ==
    /\ bkCalls < MaxCalls
    /\ bkCalls' = bkCalls + 1
    /\ IF WithdrawOk(amount, balance)
       THEN /\ balance' = balance - amount.v
            /\ bkLast' = [method |-> "withdraw", amount |-> amount, before |-> balance,
                          ret |-> Message("Withdrawn", amount, balance - amount.v)]
            /\ bkWithdrawn' = bkWithdrawn + amount.v
       ELSE /\ bkLast' = [method |-> "withdraw", amount |-> amount, before |-> balance,
                          ret |-> InvalidWithdrawal]
            /\ UNCHANGED <<balance, bkWithdrawn>>
    /\ UNCHANGED <<bkInitial, bkDeposited, mapperVars, evVars, fwVars>>

\* account.getBalance()
GetBalance ==
    /\ bkCalls < MaxCalls
    /\ bkCalls' = bkCalls + 1
    /\ bkLast' = [method |-> "getBalance", amount |-> Num(0), before |-> balance,
                  ret |-> Message("", Num(0), balance)]
    /\ UNCHANGED <<balance, bkInitial, bkDeposited, bkWithdrawn, mapperVars, evVars, fwVars>>

BankNext ==
    \/ \E amount \in Amounts : Deposit(amount)
    \/ \E amount \in Amounts : Withdraw(amount)
    \/ GetBalance

BankSpec == BankInit /\ [][BankNext]_vars

\* ---- fetchWithTimeout ----

\* The timeouts explored, in clock ticks; the clock runs one tick past them.
MaxTimeout == 2

FwInit ==
    /\ fwTimeout \in 1..MaxTimeout
    /\ FwNotCalled
    /\ MapperIdle
    /\ EvIdle
    /\ BankIdle

\* A catch handler that rethrows every error as it is.
CatchRethrows(err) == err
\* if (err.name === 'AbortError') throw new Error('Request timed out');
\* throw err;
CatchHandler(err) == IF err = "AbortError" THEN "Request timed out" ELSE err

\* A timer callback, a network event: a macrotask starts when no microtask
\* is queued.
FwMacrotask == fwTimer # "none" /\ fwMicro = <<>>

\* const controller = new AbortController();
\* const id = setTimeout(() => controller.abort(), timeoutMs);
\* return fetch(url, { signal: controller.signal }).then(...).catch(...);
FwCall ==
    /\ fwTimer = "none"
    /\ fwTimer' = "armed"
    /\ fwNet' = "inflight"
    /\ fwP' = [fwP EXCEPT !["fetch"] = Promise("pending", ""),
                          !["then"] = Promise("pending", ""),
                          !["ret"] = Promise("pending", "")]
    /\ UNCHANGED <<fwTimeout, fwNow, fwAborted, fwOk, fwJReg, fwMicro, fwHist,
                   mapperVars, evVars, bankVars>>

\* Time passes.
FwTick ==
    /\ fwTimer # "none"
    /\ fwNow < MaxTimeout + 1
    /\ fwNow' = fwNow + 1
    /\ UNCHANGED <<fwTimeout, fwTimer, fwAborted, fwNet, fwOk, fwP, fwJReg,
                   fwMicro, fwHist, mapperVars, evVars, bankVars>>

\* The response's status line and headers arrive: fetch's promise is
\* fulfilled with the response, whatever its status.
FwResponse(ok) ==
    /\ FwMacrotask
    /\ fwNet = "inflight"
    /\ fwNet' = "headers"
    /\ fwOk' = ok
    /\ fwP' = [fwP EXCEPT !["fetch"] = Promise("fulfilled", "resp")]
    /\ fwMicro' = Append(fwMicro, "thenReact")
    /\ fwHist' = [fwHist EXCEPT !.early = (fwTimer = "armed")]
    /\ UNCHANGED <<fwTimeout, fwNow, fwTimer, fwAborted, fwJReg,
                   mapperVars, evVars, bankVars>>

\* The request fails (DNS, connection, CORS): fetch's promise is rejected
\* with a TypeError.
FwNetworkError ==
    /\ FwMacrotask
    /\ fwNet = "inflight"
    /\ fwNet' = "failed"
    /\ fwP' = [fwP EXCEPT !["fetch"] = Promise("rejected", "TypeError")]
    /\ fwMicro' = Append(fwMicro, "thenReact")
    /\ fwHist' = [fwHist EXCEPT !.early = (fwTimer = "armed")]
    /\ UNCHANGED <<fwTimeout, fwNow, fwTimer, fwAborted, fwOk, fwJReg,
                   mapperVars, evVars, bankVars>>

\* The timer callback: controller.abort().  A request without a response is
\* aborted and fetch's promise is rejected with an AbortError; a body still
\* being read is aborted and the json promise is rejected with it.
FwTimerFires ==
    /\ FwMacrotask
    /\ fwTimer = "armed"
    /\ fwNow >= fwTimeout
    /\ fwTimer' = "fired"
    /\ fwAborted' = TRUE
    /\ fwHist' = [fwHist EXCEPT !.timedOut = (fwNet = "inflight"),
                                !.lateAbort = Settled(fwP["ret"].state)]
    /\ IF fwNet = "inflight"
       THEN /\ fwNet' = "aborted"
            /\ fwP' = [fwP EXCEPT !["fetch"] = Promise("rejected", "AbortError")]
            /\ fwMicro' = Append(fwMicro, "thenReact")
       ELSE IF fwNet = "headers"
       THEN /\ fwNet' = "aborted"
            /\ fwP' = IF fwP["json"].state = "pending"
                      THEN [fwP EXCEPT !["json"] = Promise("rejected", "AbortError")]
                      ELSE fwP
            /\ fwMicro' = IF fwP["json"].state = "pending" /\ fwJReg
                          THEN Append(fwMicro, "thenSettle") ELSE fwMicro
       ELSE UNCHANGED <<fwNet, fwP, fwMicro>>
    /\ UNCHANGED <<fwTimeout, fwNow, fwOk, fwJReg, mapperVars, evVars, bankVars>>

\* The body has been received: a pending resp.json() is fulfilled with the
\* parsed data or rejected with a SyntaxError.
FwBodyDone(valid) ==
    /\ FwMacrotask
    /\ fwNet = "headers"
    /\ fwNet' = "done"
    /\ fwP' = IF fwP["json"].state = "pending"
              THEN [fwP EXCEPT !["json"] =
                       IF valid THEN Promise("fulfilled", "data")
                       ELSE Promise("rejected", "SyntaxError")]
              ELSE fwP
    /\ fwMicro' = IF fwP["json"].state = "pending" /\ fwJReg
                  THEN Append(fwMicro, "thenSettle") ELSE fwMicro
    /\ UNCHANGED <<fwTimeout, fwNow, fwTimer, fwAborted, fwOk, fwJReg, fwHist,
                   mapperVars, evVars, bankVars>>

FwHead(t) == fwMicro # <<>> /\ Head(fwMicro) = t

\* Job of .then(resp => {...}) on fetch's promise.  Fulfilled: the handler
\* clears the timer, throws on a status outside 200-299 and otherwise returns
\* resp.json(), a promise the then-promise follows through a further job.
\* Rejected: there is no rejection handler and the reason passes through.
FwThenReact ==
    /\ FwHead("thenReact")
    /\ IF fwP["fetch"].state = "fulfilled"
       THEN /\ fwTimer' = IF fwTimer = "armed" THEN "cleared" ELSE fwTimer
            /\ IF fwOk
               THEN /\ fwP' = [fwP EXCEPT !["json"] = Promise("pending", "")]
                    /\ fwMicro' = Append(Tail(fwMicro), "jsonFollow")
               ELSE /\ fwP' = [fwP EXCEPT !["then"] = Promise("rejected", "HTTP")]
                    /\ fwMicro' = Append(Tail(fwMicro), "catchReact")
       ELSE /\ fwP' = [fwP EXCEPT !["then"] = fwP["fetch"]]
            /\ fwMicro' = Append(Tail(fwMicro), "catchReact")
            /\ UNCHANGED fwTimer
    /\ UNCHANGED <<fwTimeout, fwNow, fwAborted, fwNet, fwOk, fwJReg, fwHist,
                   mapperVars, evVars, bankVars>>

\* Job that subscribes the then-promise to the json promise.
FwJsonFollow ==
    /\ FwHead("jsonFollow")
    /\ IF Settled(fwP["json"].state)
       THEN /\ fwMicro' = Append(Tail(fwMicro), "thenSettle")
            /\ UNCHANGED fwJReg
       ELSE /\ fwJReg' = TRUE
            /\ fwMicro' = Tail(fwMicro)
    /\ UNCHANGED <<fwTimeout, fwNow, fwTimer, fwAborted, fwNet, fwOk, fwP, fwHist,
                   mapperVars, evVars, bankVars>>

\* Job that settles the then-promise like the json promise.
FwThenSettle ==
    /\ FwHead("thenSettle")
    /\ fwP' = [fwP EXCEPT !["then"] = fwP["json"]]
    /\ fwMicro' = Append(Tail(fwMicro), "catchReact")
    /\ UNCHANGED <<fwTimeout, fwNow, fwTimer, fwAborted, fwNet, fwOk, fwJReg,
                   fwHist, mapperVars, evVars, bankVars>>

\* Job of .catch(err => {...}): a value passes through, a reason goes
\* through the handler, which always throws.
FwCatchReact ==
    /\ FwHead("catchReact")
    /\ fwP' = [fwP EXCEPT !["ret"] =
                  IF fwP["then"].state = "fulfilled" THEN fwP["then"]
                  ELSE Promise("rejected", CatchHandler(fwP["then"].value))]
    /\ fwMicro' = Tail(fwMicro)
    /\ fwHist' = [fwHist EXCEPT !.settles = @ + 1]
    /\ UNCHANGED <<fwTimeout, fwNow, fwTimer, fwAborted, fwNet, fwOk, fwJReg,
                   mapperVars, evVars, bankVars>>

FwNext ==
    \/ FwCall
    \/ FwTick
    \/ \E ok \in BOOLEAN : FwResponse(ok)
    \/ FwNetworkError
    \/ FwTimerFires
    \/ \E valid \in BOOLEAN : FwBodyDone(valid)
    \/ FwThenReact
    \/ FwJsonFollow
    \/ FwThenSettle
    \/ FwCatchReact

FwSpec == FwInit /\ [][FwNext]_vars

\* ---- type correctness ----
TypeOK ==
    /\ callState \in {"notcalled", "pending", "fulfilled", "rejected"}
    /\ executing \subseteq Idx
    /\ \A i \in Idx : pState[i] \in {"none", "pending", "fulfilled", "rejected"}
    /\ Len(results) <= N
    /\ copy \in Copies
    /\ HeadIs("finThenable") => Settled(tState[Head(queue).i])

\* ---- vocabulary of the properties ----

\* The operation of item i has been launched and has not settled.
InFlight(i) == pState[i] = "pending"
\* The operation of item i has failed.
Failed(i) == pState[i] = "rejected" \/ opState[i] = "rejected"
\* The call has completed.
Completed == Settled(callState)
\* Nothing is left to run: no job is queued and no operation is running.
Quiescent ==
    /\ callState # "notcalled"
    /\ queue = <<>>
    /\ \A i \in Idx : opState[i] # "pending"
NoFailure == \A i \in Idx : kind[i] \notin FailKinds
\* The operations settled in an order other than the input order.
OutOfOrder ==
    \E a, b \in 1..Len(settleOrder) : a < b /\ settleOrder[a] > settleOrder[b]

\* C1: with limit >= 1 the in-flight set (executing / inProgress) never holds
\* more than limit operations, in any reachable state.
C1_InFlightWithinLimit ==
    limit >= 1 => Cardinality(executing) <= limit

\* The set is full again after the loop has resumed from a wait-for-any.
C1_Witness ==
    /\ limit >= 2
    /\ Cardinality(executing) = limit
    /\ Len(results) > limit
    /\ pc = "race"

\* C2: a call in which every operation succeeds returns a sequence as long as
\* the input whose i-th entry is the value of the operation for the i-th item,
\* whatever the order of completion; such a call never fails.
C2_ResultInInputOrder ==
    /\ callState = "fulfilled" =>
          /\ Len(callResult) = N
          /\ \A i \in Idx : callResult[i] = asyncMapper(inputs[i])
    /\ NoFailure => callState # "rejected"
    /\ (NoFailure /\ Quiescent) => callState = "fulfilled"

\* A successful call whose operations completed out of input order.
C2_Witness ==
    /\ callState = "fulfilled"
    /\ N >= 3
    /\ limit >= 1
    /\ OutOfOrder

\* C3: once an operation has failed the call never completes successfully; a
\* failed call exposes no partial result, and a call without failure ends
\* with the full result collection.
C3_AllOrNothing ==
    /\ (\E i \in Idx : Failed(i)) => callState # "fulfilled"
    /\ callState = "rejected" =>
          /\ callResult = <<>>
          /\ \E i \in Idx : pState[i] = "rejected"
    /\ callState = "fulfilled" => Len(callResult) = N
    /\ Quiescent => Completed

\* A failure observed only at the final wait-for-all, other operations having
\* succeeded.
C3_Witness ==
    /\ callState = "rejected"
    /\ pc = "returned"
    /\ \E i \in Idx : pState[i] = "fulfilled"

ExactlyOneFails == Cardinality({i \in Idx : kind[i] \in FailKinds}) = 1
TheFailing == CHOOSE i \in Idx : kind[i] \in FailKinds

C7_EmptyInput ==
    N = 0 =>
        /\ executing = {}
        /\ results = <<>>
        /\ races = <<>>
        /\ \A k \in 1..Len(queue) : queue[k].t # "invoke"
        /\ callState # "rejected"
        /\ callState = "fulfilled" => callResult = <<>>
        /\ Quiescent => callState = "fulfilled"

C7_Witness ==
    /\ N = 0
    /\ callState = "fulfilled"
    /\ callResult = <<>>

\* C8: with limit = 1 the operation of item i+1 is not launched before the
\* operation of item i has completed, and at most one is in flight.
C8_SequentialAtLimitOne ==
    limit = 1 =>
        /\ \A i \in Idx : (i < N /\ pState[i + 1] # "none") => Settled(pState[i])
        /\ Cardinality({i \in Idx : InFlight(i)}) <= 1
        /\ Cardinality(executing) <= 1

C8_Witness ==
    /\ limit = 1
    /\ N >= 3
    /\ Settled(pState[1])
    /\ Settled(pState[2])
    /\ InFlight(3)

\* C9 as stated: with limit >= |items| the ceiling is never reached and the
\* body never suspends on a wait-for-any.
C9_NeverAtCeiling ==
    (limit >= N /\ limit >= 1) =>
        /\ Cardinality(executing) < limit
        /\ races = <<>>
        /\ pc # "race"

\* C9 amended: with limit > |items| the ceiling is never reached and the body
\* never suspends on a wait-for-any; with limit = |items| >= 1 the ceiling is
\* reached by the last launch and the body suspends on one wait-for-any.
C9_BelowCeilingAboveLength ==
    /\ limit > N =>
          /\ Cardinality(executing) < limit
          /\ races = <<>>
          /\ pc # "race"
    /\ (limit = N /\ N >= 1) =>
          /\ Len(races) <= 1
          /\ pc = "race" => Len(results) = N
          /\ callState # "notcalled" => Len(races) = 1

\* Every item is in flight at once under a limit above the input length.
C9_Witness ==
    /\ limit > N
    /\ N >= 2
    /\ Cardinality(executing) = N
    /\ pc = "returned"

C11_LaunchInInputOrder ==
    /\ results = [k \in 1..Len(results) |-> k]
    /\ \A i \in Idx : (i < N /\ pState[i + 1] # "none") => pState[i] # "none"
    /\ \A i \in Idx : (i < N /\ invoked[i + 1] >= 1) => invoked[i] >= 1

\* Item 2 has settled while item 1, launched and invoked before it, has not.
C11_Witness ==
    /\ N >= 2
    /\ Settled(pState[2])
    /\ InFlight(1)
    /\ invoked[1] = 1


IsDemo ==
    /\ inputs = items
    /\ limit = DemoLimit
    /\ \A i \in Idx : kind[i] = "ok"

\* C12: for 1 <= limit <= |items| the peak size of the in-flight set is
\* exactly limit: limit is reached as soon as the call has run and limit + 1
\* is never reached.  The demo call yields [2,4,6,8,10] with a peak of 2.
C12_PeakIsLimit ==
    /\ limit >= 1 => hist.peak <= limit /\ Cardinality(executing) <= hist.peak
    /\ (limit >= 1 /\ limit <= N /\ callState # "notcalled") => hist.peak = limit
    /\ IsDemo =>
          /\ callState # "rejected"
          /\ callState # "notcalled" => hist.peak = 2
          /\ callState = "fulfilled" => callResult = <<2, 4, 6, 8, 10>>
          /\ Quiescent => callState = "fulfilled"

\* The demo call has completed.
C12_Witness ==
    /\ IsDemo
    /\ callState = "fulfilled"
    /\ callResult = <<2, 4, 6, 8, 10>>
    /\ hist.peak = 2


\* The positions in settleOrder of the promises that were rejected.
FailedPositions == {a \in 1..Len(settleOrder) : pState[settleOrder[a]] = "rejected"}
\* The operation whose failure occurred first.
FirstFailed ==
    settleOrder[CHOOSE a \in FailedPositions : \A b \in FailedPositions : a <= b]

\* C13 as stated: a failed call reports the reason of the earliest failure.
C13_ReportsEarliestFailure ==
    callState = "rejected" => callError = ErrorOf(FirstFailed)


\* C13 amended: a failed call reports the reason of one of the operations
\* that have failed, the first rejection delivered to the wait-for-any it is
\* suspended on or to the final wait-for-all.  That is the earliest failure
\* when the call never suspended on a wait-for-any or when limit <= 1; in
\* other calls a later failure can be reported in place of an earlier one.
C13_ReportsADeliveredFailure ==
    callState = "rejected" =>
        /\ \E a \in FailedPositions : callError = ErrorOf(settleOrder[a])
        /\ races = <<>> => callError = ErrorOf(FirstFailed)
        /\ limit <= 1 => callError = ErrorOf(FirstFailed)

\* Two operations have failed and the call reports the later failure.
C13_Witness ==
    /\ callState = "rejected"
    /\ Cardinality(FailedPositions) >= 2
    /\ callError # ErrorOf(FirstFailed)


\* The outcome the operation of item i settles with.
OwnOutcome(i) == IF kind[i] \in FailKinds THEN "rejected" ELSE "fulfilled"

\* No step of the mapper withdraws a launched operation or its promise.
NoWithdrawal ==
    \A i \in Idx :
        /\ pState[i] = "pending" => pState'[i] \in {"pending", OwnOutcome(i)}
        /\ opState[i] = "pending" => opState'[i] \in {"pending", OwnOutcome(i)}
        /\ Settled(pState[i]) => pState'[i] = pState[i]

\* C14: the mapper never cancels or abandons a launched operation, also after
\* a sibling or the call itself has failed: an unsettled one stays in the
\* in-flight set, no step withdraws it, and once its operation has settled
\* and the queued jobs have run it has settled with its own outcome.
C14_NoCancellation ==
    /\ [](\A i \in Idx :
            /\ InFlight(i) => i \in executing
            /\ (queue = <<>> /\ Settled(opState[i])) => pState[i] = opState[i]
            /\ (Quiescent /\ pState[i] # "none") => pState[i] = OwnOutcome(i))
    /\ [][NoWithdrawal]_vars

\* The call has failed at a wait-for-any and an operation launched before
\* that has since run to its own successful completion.
C14_Witness ==
    /\ callState = "rejected"
    /\ pc = "thrown"
    /\ \E a \in 1..Len(settleOrder) :
          /\ pState[settleOrder[a]] = "fulfilled"
          /\ \E b \in FailedPositions :
                b < a /\ callError = ErrorOf(settleOrder[b])


\* C15: if every launched operation eventually settles, the call eventually
\* completes, with the results or with a failure; and the call has never
\* completed successfully while an operation is unsettled.
C15_EventuallyCompletes ==
    /\ [](callState = "fulfilled" =>
            \A i \in Idx : pState[i] = "fulfilled" /\ opState[i] # "pending")
    /\ (callState = "pending") ~> Completed

\* A call that suspended on wait-for-any for each of its items has
\* completed after its operations settled.
C15_Witness ==
    /\ Completed
    /\ Len(races) >= 2
    /\ \E i \in Idx : opState[i] = "fulfilled"


\* The body is about to resume from a wait-for-any that a fulfilled member
\* has ended.
ResumingAfterSuccess ==
    /\ HeadIs("resume")
    /\ races[Head(queue).r].state = "fulfilled"
\* The member whose value fulfilled race r.
RaceWinner(r) ==
    CHOOSE i \in Idx : pState[i] = "fulfilled" /\ pValue[i] = races[r].value

\* C17: when the body resumes after a wait-for-any ended by a successful
\* operation, that operation has already been removed from the in-flight
\* set, so before each launch the set holds at most limit - 1 operations
\* (limit >= 1).
C17_WinnerRemovedBeforeResume ==
    limit >= 1 =>
        /\ callState = "notcalled" => Cardinality(executing) <= limit - 1
        /\ ResumingAfterSuccess =>
              /\ RaceWinner(Head(queue).r) \notin executing
              /\ Cardinality(executing) <= limit - 1

\* The body is about to resume and launch a further item into a set holding
\* limit - 1 operations.
C17_Witness ==
    /\ ResumingAfterSuccess
    /\ limit >= 2
    /\ Cardinality(executing) = limit - 1
    /\ Len(results) < N


\* Items beyond position k have been neither launched nor invoked.
NoneLaunchedAfter(k) ==
    /\ Len(results) = k
    /\ \A i \in Idx : i > k => invoked[i] = 0 /\ pState[i] = "none"
\* The call has stopped at its wait-for-any: it is failing or has failed.
StoppedAtRace ==
    /\ pc \in {"race", "thrown"}
    /\ callState # "fulfilled"
    /\ Quiescent => callState = "rejected"

NextBodyStep(lim) ==
    IF callState = "notcalled" THEN RunLoopAt(Body, 1, lim)
    ELSE IF ResumingAfterSuccess
         THEN RunLoopAt([Body EXCEPT !.queue = Tail(queue)], Len(results) + 1, lim)
         ELSE Body

\* C19: a limit below 1 is not rejected.  With limit <= 0 every step of the
\* body does exactly what it does with limit = 1: it waits after every
\* launch, one operation is in flight at a time, the results are the same;
\* the in-flight count reaches 1 and so exceeds the given limit.
C19_NonPositiveLimitActsAsOne ==
    limit <= 0 =>
        /\ NextBodyStep(limit) = NextBodyStep(1)
        /\ \A i \in Idx : (i < N /\ pState[i + 1] # "none") => Settled(pState[i])
        /\ Cardinality(executing) <= 1
        /\ hist.peak <= 1
        /\ (callState # "notcalled" /\ N >= 1) => hist.peak = 1 /\ hist.peak > limit
        /\ Len(races) = Len(results)
        /\ callState = "fulfilled" =>
              callResult = [i \in Idx |-> asyncMapper(inputs[i])]

\* A call with a limit below 1 has resumed at least once and holds one
\* operation in flight.
C19_Witness ==
    /\ limit <= 0
    /\ Len(results) >= 2
    /\ Cardinality(executing) = 1
    /\ InFlight(Len(results))


\* Some operation has been invoked.
SomeInvoked == \E i \in Idx : invoked[i] >= 1
\* The smaller of two integers.
Smaller(a, b) == IF a <= b THEN a ELSE b

\* C20: the operation is never invoked inside the launch step.  Its
\* invocation is a queued job that runs after the item's promise is in the
\* in-flight set and in the results; an operation that throws synchronously
\* rejects its promise, and the call fails with that error and never with an
\* exception of its own; the first min(limit, |items|) items are registered
\* before the first invocation runs.
C20_InvokedInLaterTurn ==
    /\ \A i \in Idx :
          /\ invoked[i] >= 1 => pState[i] # "none" /\ i <= Len(results)
          /\ (pState[i] = "pending" /\ invoked[i] = 0) =>
                \E k \in 1..Len(queue) : queue[k] = Job("invoke", i, 0)
          /\ (kind[i] = "throw" /\ invoked[i] >= 1) =>
                pState[i] = "rejected" /\ pValue[i] = ErrorOf(i)
    /\ HeadIs("invoke") =>
          /\ Head(queue).i \in executing
          /\ pState[Head(queue).i] = "pending"
          /\ invoked[Head(queue).i] = 0
    /\ SomeInvoked => Len(results) >= Smaller(limit, N)
    /\ ~SomeInvoked => callState \in {"notcalled", "pending"} \/ N = 0
    /\ callState = "rejected" =>
          \E i \in Idx : pState[i] = "rejected" /\ callError = pValue[i]
    /\ (ExactlyOneFails /\ kind[TheFailing] = "throw" /\ Quiescent) =>
          callState = "rejected" /\ callError = ErrorOf(TheFailing)

\* A call with limit >= 2 failed with the error of an operation that threw
\* synchronously.
C20_Witness ==
    /\ limit >= 2
    /\ N >= 2
    /\ ExactlyOneFails
    /\ kind[TheFailing] = "throw"
    /\ TheFailing >= 2
    /\ callState = "rejected"
    /\ callError = ErrorOf(TheFailing)


\* ---- two overlapping calls: vocabulary ----

\* The two calls: the one in view and the other one.
BothFrames == {Frame, other}
\* The cleanup of item i of call f has run.
CleanedUp(f, i) ==
    IF f.copy = "mapWithLimit" THEN f.dState[i] = "fulfilled"
    ELSE f.tState[i] # "none"
\* The operations call f has launched and not yet removed.
OwnInFlight(f) ==
    {i \in 1..Len(f.inputs) : f.pState[i] # "none" /\ ~CleanedUp(f, i)}
\* Both calls have been made and nothing is left to run.
TwinQuiescent ==
    /\ queue = <<>>
    /\ \A f \in BothFrames :
          /\ f.callState # "notcalled"
          /\ \A i \in 1..Len(f.inputs) : f.opState[i] # "pending"

\* C16: two overlapping calls share no state.  The in-flight set of each
\* call holds exactly the operations that call launched and has not removed;
\* each call runs up to its own limit whatever the other call has in flight;
\* each call's outcome is the map of its own items, or the error of one of
\* its own failing items.
C16_CallsShareNoState ==
    \A f \in BothFrames :
        /\ f.executing = OwnInFlight(f)
        /\ Cardinality(f.executing) <= f.limit
        /\ f.callState # "notcalled" =>
              f.hist.peak = Smaller(f.limit, Len(f.inputs))
        /\ f.callState = "fulfilled" =>
              f.callResult = [i \in 1..Len(f.inputs) |-> asyncMapper(f.inputs[i])]
        /\ f.callState = "rejected" =>
              \E i \in 1..Len(f.inputs) :
                 f.kind[i] \in FailKinds /\ f.callError = ErrorOf(i)
        /\ TwinQuiescent =>
              f.callState = IF \A i \in 1..Len(f.inputs) : f.kind[i] \notin FailKinds
                            THEN "fulfilled" ELSE "rejected"

\* Both calls are under way with different limits, each with its own limit
\* of operations running: limit1 + limit2 operations are in flight.
C16_Witness ==
    /\ callState = "pending"
    /\ other.callState = "pending"
    /\ limit # other.limit
    /\ Cardinality(executing) = limit
    /\ Cardinality(other.executing) = other.limit
    /\ \A i \in executing : opState[i] = "pending"
    /\ \A i \in other.executing : other.opState[i] = "pending"


\* The promises a call creates and their rejection handlers: p has the
\* cleanup reaction from its launch on, every race promise is awaited, the
\* all-promise is returned and so followed by the call's promise, and the
\* finally thunk's promise is followed by the derived promise.  The promise
\* derived by the cleanup registration is the only one nothing subscribes to.
UnhandledRejections == {i \in Idx : dState[i] = "rejected"}

\* C22: a failing operation produces no unhandled rejection other than the
\* rejection of the call's own promise; the promise derived by the cleanup
\* registration never rejects.
C22_NoUnhandledRejection == UnhandledRejections = {}


\* ---- the copies side by side: vocabulary ----

\* The record and the queue of call c of a paired run.
FrameOf(c) == IF active = c THEN Frame ELSE other.f
QueueOf(c) == IF active = c THEN queue ELSE other.q
\* A sequence of jobs without the jobs of finally and without the owners.
Visible(q) ==
    LET v == SelectSeq(q, LAMBDA j : j.t \notin FinJobs)
    IN [k \in 1..Len(v) |-> [t |-> v[k].t, i |-> v[k].i, r |-> v[k].r]]
\* What a call shows: everything but the name of the copy and the promises
\* the cleanup registration derives.
Observable(f) ==
    [f EXCEPT !.copy = "", !.dState = <<>>, !.tState = <<>>,
              !.pReact = [i \in DOMAIN f.pReact |-> Visible(f.pReact[i])]]

\* C21: the copies are observationally equivalent.  Run side by side on the
\* same items, limit and schedule of settles, after the same number of steps
\* mapWithLimit and processBatchWithLimit have launched the same operations in
\* the same order, passed through the same in-flight sets, hold the same
\* promises and pending jobs and have the same result or error; the copy that
\* is a step behind always has its next step to take.
C21_CopiesEquivalent ==
    LET a == FrameOf(1)
        b == FrameOf(2)
    IN /\ b.hist.jobs <= a.hist.jobs
       /\ a.hist.jobs <= b.hist.jobs + 1
       /\ a.hist.jobs = b.hist.jobs =>
             /\ Observable(a) = Observable(b)
             /\ Visible(QueueOf(1)) = Visible(QueueOf(2))
       /\ a.hist.jobs > b.hist.jobs =>
             b.callState = "notcalled" \/ Visible(QueueOf(2)) # <<>>

\* Both copies have failed with the same error after passing through the
\* same in-flight sets, and the finally copy has left a rejected promise.
C21_Witness ==
    /\ FrameOf(1).hist.jobs = FrameOf(2).hist.jobs
    /\ FrameOf(1).callState = "rejected"
    /\ FrameOf(2).callState = "rejected"
    /\ FrameOf(1).callError = FrameOf(2).callError
    /\ Len(FrameOf(1).hist.sets) >= 3
    /\ Len(FrameOf(2).results) >= 2
    /\ \E i \in 1..Len(FrameOf(2).inputs) : FrameOf(2).dState[i] = "rejected"


\* ---- the event loop demos: vocabulary ----

\* The lines of L in the order they were logged.
Logged(L) == SelectSeq(evLog, LAMBDA x : x \in L)
\* s is an initial part of t.
IsPrefix(s, t) == Len(s) <= Len(t) /\ s = SubSeq(t, 1, Len(s))
\* Everything scheduled has run.
EvDone == ScriptDone /\ evTicks = <<>> /\ evMicro = <<>> /\ evTimers = <<>>


Section7 == <<"microtask: promise then", "macrotask: setTimeout">>
Section8 == <<"D: synchronous", "B: promise then 1", "A: setTimeout 1",
              "C: setTimeout 2 after promise">>
\* The elements of a sequence.
Elems(q) == {q[k] : k \in 1..Len(q)}

\* C23: in the event loop demos of asyncJavaScrpit.js the promise callback
\* is logged before the callback of the 0 ms timer set before it, and
\* section 8 logs D, B, A, C in this order.
C23_MicrotaskBeforeMacrotask ==
    evScript = "asyncJavaScrpit" =>
        /\ IsPrefix(Logged(Elems(Section7)), Section7)
        /\ IsPrefix(Logged(Elems(Section8)), Section8)
        /\ EvDone => Logged(Elems(Section7)) = Section7
                     /\ Logged(Elems(Section8)) = Section8

\* The script of asyncJavaScrpit.js and all its callbacks have run under Node.
C23_Witness ==
    /\ evScript = "asyncJavaScrpit"
    /\ evNode
    /\ EvDone
    /\ Len(evLog) = 10

ExplainedLabels == <<"1. Script Start", "2. Script End", "3. Promise 1",
                     "4. Timer 1", "5. Promise 2">>
\* C24: the Event Loop Demo of asyncJavaScript-explained.js logs its five
\* lines in the order of their numeric labels.
C24_ExplainedInLabelOrder ==
    evScript = "explained" => IsPrefix(evLog, ExplainedLabels)

GuideLabels == <<"1. Start", "2. Promise done", "3. End", "4. Timeout done">>
\* C25: the Event Loop Demo of the complete async guide logs its four lines
\* in the order of their numeric labels.
C25_GuideInLabelOrder ==
    evScript = "guide" => IsPrefix(evLog, GuideLabels)


\* C26: the balance of an account created with initialBalance >= 0 is never
\* negative and is initialBalance plus the accepted deposits minus the
\* accepted withdrawals; a deposit of an amount <= 0, and a withdrawal of an
\* amount <= 0 or above the balance, returns the invalid-operation message
\* and leaves the balance as it was.
C26_BalanceNeverNegative ==
    /\ balance >= 0
    /\ balance = bkInitial + bkDeposited - bkWithdrawn
    /\ (bkLast.method = "deposit" /\ Le(bkLast.amount, Num(0))) =>
          bkLast.ret = InvalidDeposit /\ balance = bkLast.before
    /\ (bkLast.method = "withdraw"
          /\ (Le(bkLast.amount, Num(0)) \/ Gt(bkLast.amount, Num(bkLast.before)))) =>
          bkLast.ret = InvalidWithdrawal /\ balance = bkLast.before
    /\ bkLast.ret \in {InvalidDeposit, InvalidWithdrawal} => balance = bkLast.before
    /\ bkLast.method = "getBalance" => bkLast.ret.balance = balance

\* The usage lines: createBankAccount(100), deposit(50), and withdraw(30)
\* has returned "Withdrawn 30. New balance: 120".
C26_Witness ==
    /\ bkInitial = DemoBalance
    /\ bkDeposited = DemoDeposit
    /\ bkLast.ret = Message("Withdrawn", Num(DemoWithdraw), 120)
    /\ balance = 120


\* C27: the promise fetchWithTimeout returns is settled once, and when the
\* timer fires with no response received the request is aborted and the
\* promise is rejected with 'Request timed out', never with the abort error
\* and never fulfilled.
C27_TimesOutWithOwnError ==
    /\ fwHist.settles <= 1
    /\ Settled(fwP["ret"].state) <=> fwHist.settles = 1
    /\ fwP["ret"].value # "AbortError"
    /\ fwHist.timedOut =>
          /\ fwAborted
          /\ fwNet = "aborted"
          /\ fwP["ret"].state # "fulfilled"
          /\ fwP["ret"].state = "rejected" => fwP["ret"].value = "Request timed out"
          /\ fwMicro = <<>> => fwP["ret"].state = "rejected"

\* The timer fired before any response and the call has failed with the
\* timeout error.
C27_Witness ==
    /\ fwHist.timedOut
    /\ fwP["fetch"] = Promise("rejected", "AbortError")
    /\ fwP["ret"] = Promise("rejected", "Request timed out")

\* C28: the timer is cancelled on every path on which the request finishes
\* before the timeout, so controller.abort() is never called once the
\* returned promise has settled.
C28_TimerAlwaysCancelled ==
    /\ ~fwHist.lateAbort
    /\ (fwHist.early /\ Settled(fwP["ret"].state)) => fwTimer = "cleared"

====
